---- MODULE Spec2Model ----
(***************************************************************************)
(* GSMS: migration of Nvidia GameStream apps into Sunshine's apps.json.    *)
(* Model of src/gsms/gsms.py.  A Python str is a sequence of one-character  *)
(* strings, so that prefix tests, stripping, replacing and joining are      *)
(* computed character by character as the code computes them.               *)
(***************************************************************************)
EXTENDS Integers, Sequences, FiniteSets, TLC

(***************************************************************************)
(* str primitives used by the code                                         *)
(***************************************************************************)

\* os.sep on Windows, the only platform the script runs on (ctypes.windll)
os_sep == "\\"

UpperChars == <<"A", "B", "C", "D", "E", "F", "G", "H", "I", "J", "K", "L", "M", "N", "O", "P", "Q", "R", "S", "T", "U", "V", "W", "X", "Y", "Z">>

LowerChars == <<"a", "b", "c", "d", "e", "f", "g", "h", "i", "j", "k", "l", "m", "n", "o", "p", "q", "r", "s", "t", "u", "v", "w", "x", "y", "z">>

LowerChar(c) ==
    IF \E k \in 1..Len(UpperChars) : UpperChars[k] = c
    THEN LowerChars[CHOOSE k \in 1..Len(UpperChars) : UpperChars[k] = c]
    ELSE c

\* str.lower()
Lower(s) == [k \in 1..Len(s) |-> LowerChar(s[k])]

\* str.startswith(p)
StartsWith(s, p) == Len(p) <= Len(s) /\ SubSeq(s, 1, Len(p)) = p

\* str.endswith(p)
EndsWith(s, p) == Len(p) <= Len(s) /\ SubSeq(s, Len(s) - Len(p) + 1, Len(s)) = p

\* p in s
Contains(s, p) == \E k \in 1..(Len(s) - Len(p) + 1) : SubSeq(s, k, k + Len(p) - 1) = p

\* s[n:]
DropFirst(s, n) == SubSeq(s, n + 1, Len(s))

\* s.find(p) for a p that occurs in s, as a 1-based position
Find(s, p) ==
    CHOOSE k \in 1..(Len(s) - Len(p) + 1) :
        /\ SubSeq(s, k, k + Len(p) - 1) = p
        /\ \A j \in 1..(k - 1) : SubSeq(s, j, j + Len(p) - 1) # p

\* str.replace(old, new) for a non-empty old: every occurrence, left to right
RECURSIVE Replace(_, _, _)
Replace(s, old, new) ==
    IF ~Contains(s, old) THEN s
    ELSE SubSeq(s, 1, Find(s, old) - 1) \o new
         \o Replace(DropFirst(s, Find(s, old) + Len(old) - 1), old, new)

Whitespace == {" ", "\t", "\n", "\r"}

RECURSIVE LStrip(_)
LStrip(s) == IF s # <<>> /\ s[1] \in Whitespace THEN LStrip(Tail(s)) ELSE s

RECURSIVE RStrip(_)
RStrip(s) == IF s # <<>> /\ s[Len(s)] \in Whitespace THEN RStrip(SubSeq(s, 1, Len(s) - 1)) ELSE s

\* str.strip()
Strip(s) == RStrip(LStrip(s))

\* str.strip('{}')
RECURSIVE StripBraces(_)
StripBraces(s) ==
    IF s # <<>> /\ s[1] \in {"{", "}"} THEN StripBraces(Tail(s))
    ELSE IF s # <<>> /\ s[Len(s)] \in {"{", "}"} THEN StripBraces(SubSeq(s, 1, Len(s) - 1))
    ELSE s

(***************************************************************************)
(* os.path.join(a, b) of ntpath for two components.  Drives are drive       *)
(* letters ("X:"); UNC roots do not occur in the modelled inputs.           *)
(***************************************************************************)
PathSeps == {"\\", "/"}

\* ntpath.splitdrive: <<drive, rest>>
splitdrive(p) ==
    IF Len(p) >= 2 /\ p[2] = ":" THEN <<SubSeq(p, 1, 2), DropFirst(p, 2)>> ELSE <<(<<>>), p>>

os_path_join(path, p) ==
    LET rd == splitdrive(path)[1]
        rp == splitdrive(path)[2]
        pd == splitdrive(p)[1]
        pp == splitdrive(p)[2]
    IN  IF pp # <<>> /\ pp[1] \in PathSeps
        THEN (IF pd # <<>> \/ rd = <<>> THEN pd ELSE rd) \o pp
        ELSE IF pd # <<>> /\ pd # rd /\ Lower(pd) # Lower(rd)
        THEN pd \o pp
        ELSE (IF pd # <<>> /\ pd # rd THEN pd ELSE rd)
             \o (IF rp # <<>> /\ rp[Len(rp)] \notin PathSeps THEN rp \o <<os_sep>> ELSE rp)
             \o pp

(***************************************************************************)
(* get_win_path and known_path_to_absolute                                 *)
(***************************************************************************)
HexChars == {"0", "1", "2", "3", "4", "5", "6", "7", "8", "9",
             "a", "b", "c", "d", "e", "f", "A", "B", "C", "D", "E", "F"}

\* the number of hex digits uuid.UUID requires
HexLen == 32

Ok(v) == [ok |-> TRUE, val |-> v, exc |-> "none"]

Raise(e) == [ok |-> FALSE, val |-> <<>>, exc |-> e]

\* the folders SHGetKnownFolderPath resolves on the modelled machine, keyed by
\* the 32 hex digits of the identifier in lower case
KnownFolders ==
    [h \in {<<"f", "3", "8", "b", "f", "4", "0", "4", "1", "d", "4", "3", "4", "2", "f", "2", "9", "3", "0", "5", "6", "7", "d", "e", "0", "b", "2", "8", "f", "c", "2", "3">>} |-> <<"C", ":", "\\", "W", "I", "N", "D", "O", "W", "S">>]

\* int(hex, 16), the sign: one plus sign is accepted.  The minus sign is not
\* modelled: UUID removes every hyphen before it converts.
strip_sign(s) == IF StartsWith(s, <<"+">>) THEN Tail(s) ELSE s

\* int(hex, 16), the prefix: 0x or 0X is accepted, and one underscore behind it
strip_0x(s) ==
    IF StartsWith(Lower(s), <<"0", "x", "_">>) THEN DropFirst(s, 3)
    ELSE IF StartsWith(Lower(s), <<"0", "x">>) THEN DropFirst(s, 2)
    ELSE s

\* int(hex, 16), the digits: hex digits with single underscores between them
is_digits(s) ==
    /\ s # <<>>
    /\ \A k \in 1..Len(s) : s[k] \in HexChars \cup {"_"}
    /\ s[1] # "_" /\ s[Len(s)] # "_"
    /\ ~Contains(s, <<"_", "_">>)

\* the digits without the underscores
int_digits(s) == SelectSeq(s, LAMBDA c : c # "_")

\* a number of at most HexLen hex digits as HexLen digits
zero_pad(d) ==
    [k \in 1..HexLen |-> IF k <= HexLen - Len(d) THEN "0" ELSE d[k - (HexLen - Len(d))]]

\* the value of a digit string: its HexLen hex digits in lower case, or a ValueError
int_value(s) == IF is_digits(s) THEN Ok(Lower(zero_pad(int_digits(s)))) ELSE Raise("ValueError")

\* int(hex, 16) of a string of HexLen characters: surrounding whitespace, a
\* plus sign, a 0x prefix and underscores between the digits are accepted
int16(hex) == int_value(strip_0x(strip_sign(Strip(hex))))

\* hex.replace('urn:', '').replace('uuid:', '').strip('{}').replace('-', '')
uuid_hex(folder_id) ==
    Replace(StripBraces(Replace(Replace(folder_id, <<"u", "r", "n", ":">>, <<>>), <<"u", "u", "i", "d", ":">>, <<>>)), <<"-">>, <<>>)

\* if len(hex) != 32: raise ValueError; int(hex, 16)
uuid_int(hex) == IF Len(hex) = HexLen THEN int16(hex) ELSE Raise("ValueError")

\* uuid.UUID(hex=folder_id): the 32 hex digits of the identifier, or a ValueError
UUID(folder_id) == uuid_int(uuid_hex(folder_id))

\* the SHGetKnownFolderPath calls get_win_path makes: one, unless UUID raised
lookups(folder_id) == IF UUID(folder_id).ok THEN 1 ELSE 0

get_win_path(folder_id) ==
    LET fid == UUID(folder_id)
    IN  IF ~fid.ok THEN fid
        ELSE IF fid.val \in DOMAIN KnownFolders THEN Ok(KnownFolders[fid.val])
        ELSE Raise("NotADirectoryError")

\* the group lengths of the 8-4-4-4-12 pattern, as offsets of the hyphens
\* inside "::{........-....-....-....-............}"
RegexLen == 40

RegexHyphens == {12, 17, 22, 27}

\* regex.findall(path): the one match anchored at the start, or none
regex_findall(path) ==
    IF /\ Len(path) >= RegexLen
       /\ path[1] = ":" /\ path[2] = ":" /\ path[3] = "{" /\ path[RegexLen] = "}"
       /\ \A k \in 4..(RegexLen - 1) :
             IF k \in RegexHyphens THEN path[k] = "-" ELSE path[k] \in HexChars
    THEN <<SubSeq(path, 3, RegexLen)>>
    ELSE <<>>

known_path_to_absolute(path) ==
    LET path_result == regex_findall(path)
    IN  IF Len(path_result) = 1
        THEN LET resolved == get_win_path(path_result[1])
             IN  IF resolved.ok
                 THEN Ok(Replace(path, <<":", ":">> \o path_result[1], resolved.val))
                 ELSE resolved
        ELSE Ok(path)

(***************************************************************************)
(* has_app                                                                 *)
(***************************************************************************)

\* a comparison that ignores letter case
name_matches_ci(name, existing_app) == Lower(name) = Lower(existing_app["name"])

\* name == existing_app['name']
name_matches(name, existing_app) == name = existing_app["name"]

\* the for loop with its break: the scan stops at the first match
RECURSIVE has_app_scan(_, _, _)
has_app_scan(apps, name, k) ==
    IF k > Len(apps) THEN FALSE
    ELSE IF name_matches(name, apps[k]) THEN TRUE
    ELSE has_app_scan(apps, name, k + 1)

\* a loop without its break that keeps the result of the last comparison
has_app_last(sunshine_apps, name) ==
    Len(sunshine_apps.apps) > 0
    /\ name_matches(name, sunshine_apps.apps[Len(sunshine_apps.apps)])

has_app(sunshine_apps, name) == has_app_scan(sunshine_apps.apps, name, 1)

(***************************************************************************)
(* add_game                                                                *)
(***************************************************************************)

\* while working_dir.endswith(os.sep): working_dir = working_dir[:-1]
RECURSIVE strip_trailing_sep(_)
strip_trailing_sep(working_dir) ==
    IF EndsWith(working_dir, <<os_sep>>)
    THEN strip_trailing_sep(SubSeq(working_dir, 1, Len(working_dir) - 1))
    ELSE working_dir

\* while cmd.startswith(os.sep): cmd = cmd[1:]
RECURSIVE strip_leading_sep(_)
strip_leading_sep(cmd) ==
    IF StartsWith(cmd, <<os_sep>>) THEN strip_leading_sep(Tail(cmd)) ELSE cmd

\* .strip('"'): only the quotes that wrap the string
RECURSIVE remove_wrapping_quotes(_)
remove_wrapping_quotes(s) ==
    IF s # <<>> /\ s[1] = "\"" THEN remove_wrapping_quotes(Tail(s))
    ELSE IF s # <<>> /\ s[Len(s)] = "\"" THEN remove_wrapping_quotes(SubSeq(s, 1, Len(s) - 1))
    ELSE s

\* .replace('"', '')
remove_quotes(s) == Replace(s, <<"\"">>, <<>>)

\* working_dir as stored in the entry, from the resolved working directory
clean_working_dir(resolved) == remove_quotes(strip_trailing_sep(resolved))

\* cmd as it enters the classification, from the resolved command
clean_cmd(resolved) == remove_quotes(strip_leading_sep(resolved))

\* if cmd.lower().startswith("start")
is_start(cmd) == StartsWith(Lower(cmd), <<"s", "t", "a", "r", "t">>)

\* cmd = cmd[5:] without the strip
start_rule_no_strip(cmd) == IF is_start(cmd) THEN DropFirst(cmd, 5) ELSE cmd

\* cmd = cmd[5:].strip()
start_rule(cmd) == IF is_start(cmd) THEN Strip(DropFirst(cmd, 5)) ELSE cmd

\* if '://' in cmd
is_uri(cmd) == Contains(cmd, <<":", "/", "/">>)

\* if 'steam://' in cmd
uses_steam(cmd) == Contains(cmd, <<"s", "t", "e", "a", "m", ":", "/", "/">>)

\* the prefix test inverted: joins exactly the commands that already start with working_dir
uri_or_path_rule_inverted(cmd, working_dir) ==
    IF is_uri(cmd)
    THEN (IF uses_steam(cmd) THEN <<"s", "t", "e", "a", "m", " ">> \o cmd ELSE cmd)
    ELSE IF StartsWith(cmd, working_dir) THEN os_path_join(working_dir, cmd)
    ELSE cmd

\* the working directory put in front of every command that is not a URI, without the prefix test
uri_or_path_rule_concat(cmd, working_dir) ==
    IF is_uri(cmd)
    THEN (IF uses_steam(cmd) THEN <<"s", "t", "e", "a", "m", " ">> \o cmd ELSE cmd)
    ELSE working_dir \o <<os_sep>> \o cmd

\* the if / elif that follows the start rule
uri_or_path_rule(cmd, working_dir) ==
    IF is_uri(cmd)
    THEN (IF uses_steam(cmd) THEN <<"s", "t", "e", "a", "m", " ">> \o cmd ELSE cmd)
    ELSE IF ~StartsWith(cmd, working_dir) THEN os_path_join(working_dir, cmd)
    ELSE cmd

\* detached after both rules
is_detached(cmd) == is_start(cmd) \/ is_uri(start_rule(cmd))

\* a data dict that stores the name stripped of surrounding whitespace
make_data_stripped_name(name, logfile, working_dir, image_path, detached, cmd) ==
    ("name" :> Strip(name)) @@ ("output" :> logfile) @@ ("working-dir" :> working_dir)
    @@ ("image-path" :> image_path)
    @@ (IF detached THEN ("detached" :> <<cmd>>) ELSE ("cmd" :> cmd))

\* a data dict that always carries 'cmd', and 'detached' beside it when detached
make_data_both(name, logfile, working_dir, image_path, detached, cmd) ==
    ("name" :> name) @@ ("output" :> logfile) @@ ("working-dir" :> working_dir)
    @@ ("image-path" :> image_path) @@ ("cmd" :> cmd)
    @@ (IF detached THEN ("detached" :> <<cmd>>) ELSE ("cmd" :> cmd))

\* a data dict with the log file under 'image-path' and the image under 'output'
make_data_swapped(name, logfile, working_dir, image_path, detached, cmd) ==
    ("name" :> name) @@ ("output" :> image_path) @@ ("working-dir" :> working_dir)
    @@ ("image-path" :> logfile)
    @@ (IF detached THEN ("detached" :> <<cmd>>) ELSE ("cmd" :> cmd))

\* the data dict with the command in the appropriate field
make_data(name, logfile, working_dir, image_path, detached, cmd) ==
    ("name" :> name) @@ ("output" :> logfile) @@ ("working-dir" :> working_dir)
    @@ ("image-path" :> image_path)
    @@ (IF detached THEN ("detached" :> <<cmd>>) ELSE ("cmd" :> cmd))

\* the entry add_game builds, or the exception the resolver raised
add_game_data(name, logfile, cmd, working_dir, image_path) ==
    LET wd0 == known_path_to_absolute(working_dir)
        cmd0 == known_path_to_absolute(cmd)
    IN  IF ~wd0.ok THEN wd0
        ELSE IF ~cmd0.ok THEN cmd0
        ELSE LET wd == clean_working_dir(wd0.val)
                 c == clean_cmd(cmd0.val)
             IN  Ok(make_data(name, logfile, wd, image_path, is_detached(c),
                              uri_or_path_rule(start_rule(c), wd)))

\* sunshine_apps['apps'].insert(0, data)
prepend_app(sunshine_apps, data) ==
    [sunshine_apps EXCEPT !.apps = <<data>> \o sunshine_apps.apps]

\* an append that skips a name already present
append_app_dedup(sunshine_apps, data) ==
    IF \E k \in 1..Len(sunshine_apps.apps) : sunshine_apps.apps[k]["name"] = data["name"]
    THEN sunshine_apps
    ELSE [sunshine_apps EXCEPT !.apps = Append(sunshine_apps.apps, data)]

\* sunshine_apps['apps'].append(data)
append_app(sunshine_apps, data) ==
    [sunshine_apps EXCEPT !.apps = Append(sunshine_apps.apps, data)]

\* the registry after add_game returned normally
add_game(sunshine_apps, name, logfile, cmd, working_dir, image_path) ==
    append_app(sunshine_apps, add_game_data(name, logfile, cmd, working_dir, image_path).val)

(***************************************************************************)
(* copy_image on a file system: a function from the paths of the existing  *)
(* files to their content                                                   *)
(***************************************************************************)
isfile(fs, path) == path \in DOMAIN fs

\* a copy whenever the source exists, over an existing destination too
copy_image_overwrite(fs, src_image, dst_image) ==
    IF isfile(fs, src_image)
    THEN [p \in DOMAIN fs \cup {dst_image} |-> IF p = dst_image THEN fs[src_image] ELSE fs[p]]
    ELSE fs

copy_image(fs, src_image, dst_image) ==
    IF isfile(fs, src_image) /\ ~isfile(fs, dst_image)
    THEN (dst_image :> fs[src_image]) @@ fs
    ELSE fs

(***************************************************************************)
(* main: the migration run                                                 *)
(***************************************************************************)

\* args.shortcut_dir, args.image_path and nvidia_images_base_dir
shortcut_dir == <<"L", ":", "\\", "A">>

image_path == <<"P", ":", "\\", "S">>

nvidia_images_base_dir == <<"N", ":", "\\", "V">>

\* os.path.join with more than two components
os_path_join3(a, b, c) == os_path_join(os_path_join(a, b), c)

os_path_join4(a, b, c, d) == os_path_join(os_path_join3(a, b, c), d)

\* gs_app.lower().endswith('.lnk')
is_lnk(gs_app) == EndsWith(Lower(gs_app), <<".", "l", "n", "k">>)

\* gs_app.rsplit('.', 1)[0]
RECURSIVE rsplit_head(_)
rsplit_head(s) ==
    IF s = <<>> THEN <<>>
    ELSE IF s[Len(s)] = "." THEN SubSeq(s, 1, Len(s) - 1)
    ELSE rsplit_head(SubSeq(s, 1, Len(s) - 1))

shortcut_name(gs_app) == IF Contains(gs_app, <<".">>) THEN rsplit_head(gs_app) ELSE gs_app

\* f"{name.lower().replace(' ', '_')}.log"
shortcut_logfile(name) == Replace(Lower(name), <<" ">>, <<"_">>) \o <<".", "l", "o", "g">>

shortcut_src_image(name) ==
    os_path_join4(shortcut_dir, <<"S", "t", "r", "e", "a", "m", "i", "n", "g", "A", "s", "s", "e", "t", "s">>, name, <<"b", "o", "x", "-", "a", "r", "t", ".", "p", "n", "g">>)

shortcut_dst_image(name) == os_path_join(image_path, name \o <<".", "p", "n", "g">>)

\* shortcut.work_dir = "" if shortcut.work_dir is None else shortcut.work_dir
shortcut_work_dir(shortcut) == IF shortcut.has_work_dir THEN shortcut.work_dir ELSE <<>>

\* gfe_apps["metadata"] of ApplicationData.json: short name -> version ("c")
gfe_metadata == (<<"a", "b">> :> <<"1">>) @@ (<<"k", "l">> :> <<"2">>)

autodetect_src_image(short_name) ==
    os_path_join4(nvidia_images_base_dir, short_name, gfe_metadata[short_name],
                  short_name \o <<"-", "b", "o", "x", "-", "a", "r", "t", ".", "p", "n", "g">>)

autodetect_dst_image(short_name) == os_path_join(image_path, short_name \o <<".", "p", "n", "g">>)

autodetect_logfile(short_name) == short_name \o <<".", "l", "o", "g">>

(***************************************************************************)
(* Inputs                                                                  *)
(***************************************************************************)
MaxShortcuts == 2

MaxApplications == 2

MaxCalls == 2

MaxCmdTokens == 2

MaxWdTokens == 2

\* a known folder, an identifier the system does not know
GuidWindows == <<":", ":", "{", "F", "3", "8", "B", "F", "4", "0", "4", "-", "1", "D", "4", "3", "-", "4", "2", "F", "2", "-", "9", "3", "0", "5", "-", "6", "7", "D", "E", "0", "B", "2", "8", "F", "C", "2", "3", "}">>

GuidUnknown == <<":", ":", "{", "0", "0", "0", "0", "0", "0", "0", "0", "-", "0", "0", "0", "0", "-", "0", "0", "0", "0", "-", "0", "0", "0", "0", "-", "0", "0", "0", "0", "0", "0", "0", "0", "0", "0", "0", "0", "}">>

\* registry entries as found in an apps.json before the run
EntryAb == ("name" :> <<"A", "b">>) @@ ("image-path" :> <<"a", "b", ".", "p", "n", "g">>)

EntryLowerAb == ("name" :> <<"a", "b">>) @@ ("detached" :> << <<"s", "t", "e", "a", "m", " ", "s", "t", "e", "a", "m", ":", "/", "/", "o", "p", "e", "n", "/", "b", "i", "g", "p", "i", "c", "t", "u", "r", "e">> >>)
                @@ ("image-path" :> <<"s", "t", "e", "a", "m", ".", "p", "n", "g">>)

EntryCd == ("name" :> <<"C", "d">>) @@ ("cmd" :> <<"c", ".", "e", "x", "e">>)

Env == ("PATH" :> <<"$", "(", "P", "A", "T", "H", ")">>)

Registry(apps) == [env |-> Env, apps |-> apps]

\* the last one holds a name twice: the store itself does not enforce uniqueness
InitialRegistries ==
    { Registry(<<EntryLowerAb>>), Registry(<<EntryLowerAb, EntryCd>>), Registry(<<EntryAb, EntryAb>>) }

NoRegistry == Registry(<<>>)

\* the entries os.listdir can return, each with what pylnk3.parse finds in it
Lnk(fname, valid, path, has_work_dir, work_dir) ==
    [fname |-> fname, valid |-> valid, path |-> path,
     has_work_dir |-> has_work_dir, work_dir |-> work_dir]

DirEntries ==
    { Lnk(<<"A", "b", ".", "l", "n", "k">>, TRUE, <<"C", ":", "\\", "G", "\\", "a", ".", "e", "x", "e">>, TRUE, <<"C", ":", "\\", "G", "\\">>),
      Lnk(<<"C", "d", ".", "L", "N", "K">>, TRUE, <<"s", "t", "a", "r", "t", " ", "s", "t", "e", "a", "m", ":", "/", "/", "r", "/", "1">>, FALSE, <<>>),
      Lnk(<<"E", "f", ".", "l", "n", "k">>, TRUE, GuidUnknown \o <<"\\", "e", ".", "e", "x", "e">>, TRUE, <<"C", ":", "\\", "G">>),
      Lnk(<<"G", "h", ".", "l", "n", "k">>, FALSE, <<>>, FALSE, <<>>),
      Lnk(<<"S", "t", "r", "e", "a", "m", "i", "n", "g", "A", "s", "s", "e", "t", "s">>, FALSE, <<>>, FALSE, <<>>) }

\* the Application records of journalBS.main.xml
App(name, has_cmd, cmd, dir, short_name) ==
    [DisplayName |-> name, has_cmd |-> has_cmd, StreamingCommandLine |-> cmd,
     InstallDirectory |-> dir, ShortName |-> short_name]

Applications ==
    { App(<<"S", "t", "e", "a", "m">>, TRUE, <<"s", "t", "e", "a", "m", ".", "e", "x", "e">>, <<"C", ":", "\\", "S">>, <<"s", "t", "e", "a", "m">>),
      App(<<"A", "b">>, TRUE, <<"\"", "a", ".", "e", "x", "e", "\"">>, GuidWindows \o <<"\\", "A", "\\">>, <<"a", "b">>),
      App(<<"I", "j">>, FALSE, <<>>, <<"C", ":", "\\", "I">>, <<"i", "j">>),
      App(<<"O", "p">>, TRUE, <<"o", ".", "e", "x", "e">>, <<"C", ":", "\\", "O">>, <<"o", "p">>),
      App(<<"K", "l">>, TRUE, <<"k", ".", "e", "x", "e">>, GuidUnknown, <<"k", "l">>) }

\* sequences over S of length at most n
RECURSIVE SeqsUpTo(_, _)
SeqsUpTo(S, n) ==
    IF n = 0 THEN {<<>>}
    ELSE LET shorter == SeqsUpTo(S, n - 1)
         IN  shorter \cup {Append(s, x) : s \in shorter, x \in S}

\* a directory listing never holds a file name twice
Listings ==
    {l \in SeqsUpTo(DirEntries, MaxShortcuts) :
        \A j, k \in 1..Len(l) : j # k => l[j].fname # l[k].fname}

Journals ==
    {[exists |-> FALSE, applications |-> <<>>]}
    \cup {[exists |-> TRUE, applications |-> a] : a \in SeqsUpTo(Applications, MaxApplications)}

\* the box art present on disk before the run
InitialFiles ==
    (shortcut_src_image(<<"A", "b">>) :> "art_Ab") @@ (autodetect_src_image(<<"a", "b">>) :> "art_ab")
    @@ (autodetect_dst_image(<<"a", "b">>) :> "old_ab")

\* the paths and the file contents of the copy_image calls
CopyPaths == { shortcut_src_image(<<"A", "b">>), shortcut_dst_image(<<"A", "b">>), shortcut_dst_image(<<"C", "d">>) }

CopyContents == { "art_Ab", "old_Ab" }

\* the file systems that hold some of these paths
CopyFiles == UNION { [D -> CopyContents] : D \in SUBSET CopyPaths }

\* concatenations of at most n tokens
RECURSIVE Concats(_, _)
Concats(T, n) ==
    IF n = 0 THEN {<<>>}
    ELSE LET shorter == Concats(T, n - 1)
         IN  shorter \cup {s \o t : s \in shorter, t \in T}

CmdTokens ==
    { <<"s", "t", "a", "r", "t">>, <<"s", "t", "a", "r", "t", " ">>, <<"S", "t", "a", "r", "t", " ">>, <<" ">>, <<"s", "t", "e", "a", "m", ":", "/", "/", "r">>, <<":", "/", "/">>, <<"a", ".", "e", "x", "e">>, <<"\\">>, <<"\"">>,
      <<"C", ":", "\\", "G">> }

WdTokens == { <<"C", ":", "\\", "G">>, <<"\\">>, <<"\"">>, GuidWindows }

\* the commands and working directories the spec and the tests name
ExampleCmds ==
    { <<"s", "t", "a", "r", "t", " ", "s", "t", "e", "a", "m", ":", "/", "/", "r", "u", "n", "g", "a", "m", "e", "i", "d", "/", "1", "2", "3", "4", "5">>, <<"C", ":", "\\", "G", "a", "m", "e", "s", "\\", "F", "o", "o", "\\", "F", "o", "o", ".", "e", "x", "e">>, <<"a", "d", "d", "e", "d", "_", "g", "a", "m", "e", ".", "e", "x", "e">>,
      GuidWindows \o <<"\\", "S", "y", "s", "t", "e", "m", "3", "2", "\\", "f", "o", "o", ".", "e", "x", "e">>, GuidUnknown \o <<"\\", "f", "o", "o", ".", "e", "x", "e">>,
      <<"D", ":", "\\", "O", "t", "h", "e", "r", "\\", "o", ".", "e", "x", "e">>, <<"S", "t", "a", "r", "T", "r", "e", "k", ".", "e", "x", "e">>, <<"x", "s", "t", "e", "a", "m", ":", "/", "/", "r", "/", "1">>, <<"s", "t", "a", "r", "t", "\t", "a", ".", "e", "x", "e">>, <<"a", "\"", "b", ".", "e", "x", "e">>,
      <<"s", "t", "a", "r", "t", " ">> \o GuidUnknown \o <<"\\", "f", "o", "o", ".", "e", "x", "e">> }

ExampleWds ==
    { <<"C", ":", "\\", "G", "a", "m", "e", "s", "\\", "F", "o", "o">>, <<".", "\\", "t", "e", "s", "t", "_", "d", "i", "r", "e", "c", "t", "o", "r", "y">>, <<"\"", "C", ":", "\\", "G", "a", "m", "e", "s", "\\", "F", "o", "o", "\\", "\"">>, <<"C", ":", "\\", "G", "a", "\"", "m", "e", "s">>, GuidUnknown }

\* a UNC root (two leading separators) is outside os_path_join as modelled
starts_unc(s) == Len(s) >= 2 /\ s[1] \in PathSeps /\ s[2] \in PathSeps

CmdInputs ==
    {c \in Concats(CmdTokens, MaxCmdTokens) : ~starts_unc(start_rule(clean_cmd(c)))}
    \cup ExampleCmds

WdInputs ==
    {w \in Concats(WdTokens, MaxWdTokens) : ~starts_unc(remove_quotes(w))} \cup ExampleWds

\* the pieces the paths given to known_path_to_absolute are made of
PathTokens ==
    { GuidWindows, GuidUnknown, <<"\\", "S", "y", "s", "t", "e", "m", "3", "2", "\\", "f", "o", "o", ".", "e", "x", "e">>, <<"C", ":", "\\", "G">>, <<":", ":", "{", "F", "3", "8", "B", "F", "4", "0", "4", "}">>, <<" ">> }

MaxPathTokens == 2

PathInputs == Concats(PathTokens, MaxPathTokens)

\* the pieces the identifiers given to get_win_path are made of
IdTokens ==
    { <<"F", "3", "8", "B", "F", "4", "0", "4", "-", "1", "D", "4", "3", "-", "4", "2", "F", "2", "-", "9", "3", "0", "5", "-", "6", "7", "D", "E", "0", "B", "2", "8", "F", "C", "2", "3">>, <<"0", "0", "0", "0", "0", "0", "0", "0", "-", "0", "0", "0", "0", "-", "0", "0", "0", "0", "-", "0", "0", "0", "0", "-", "0", "0", "0", "0", "0", "0", "0", "0", "0", "0", "0", "0">>,
      <<"{">>, <<"}">>, <<"n", "o", "t", "_", "a", "_", "v", "a", "l", "i", "d", "_", "u", "u", "i", "d">>, <<"u", "r", "n", ":", "u", "u", "i", "d", ":">> }

\* identifiers in braces, without hyphens, in lower case, and strings of 32
\* characters that are not 32 hex digits
ExampleIds ==
    { <<"{", "F", "3", "8", "B", "F", "4", "0", "4", "-", "1", "D", "4", "3", "-", "4", "2", "F", "2", "-", "9", "3", "0", "5", "-", "6", "7", "D", "E", "0", "B", "2", "8", "F", "C", "2", "3", "}">>, <<"{", "0", "0", "0", "0", "0", "0", "0", "0", "-", "0", "0", "0", "0", "-", "0", "0", "0", "0", "-", "0", "0", "0", "0", "-", "0", "0", "0", "0", "0", "0", "0", "0", "0", "0", "0", "0", "}">>,
      <<"f", "3", "8", "b", "f", "4", "0", "4", "1", "d", "4", "3", "4", "2", "f", "2", "9", "3", "0", "5", "6", "7", "d", "e", "0", "b", "2", "8", "f", "c", "2", "3">>, <<"F", "3", "8", "B", "F", "4", "0", "4", "-", "1", "D", "4", "3", "-", "4", "2", "F", "2", "-", "9", "3", "0", "5", "-", "6", "7", "D", "E", "0", "B", "2", "8", "F", "C", "2", "G">>,
      <<"0", "x", "F", "3", "8", "B", "F", "4", "0", "4", "1", "D", "4", "3", "4", "2", "F", "2", "9", "3", "0", "5", "6", "7", "D", "E", "0", "B", "2", "8", "F", "C">>, <<"+", "F", "3", "8", "B", "F", "4", "0", "4", "1", "D", "4", "3", "4", "2", "F", "2", "9", "3", "0", "5", "6", "7", "D", "E", "0", "B", "2", "8", "F", "C", "2">>,
      <<" ", "F", "3", "8", "B", "F", "4", "0", "4", "1", "D", "4", "3", "4", "2", "F", "2", "9", "3", "0", "5", "6", "7", "D", "E", "0", "B", "2", "8", "F", "C", "2">>, <<"F", "3", "8", "B", "F", "4", "0", "4", "_", "1", "D", "4", "3", "4", "2", "F", "2", "9", "3", "0", "5", "6", "7", "D", "E", "0", "B", "2", "8", "F", "C", "2">>,
      <<"_", "F", "3", "8", "B", "F", "4", "0", "4", "1", "D", "4", "3", "4", "2", "F", "2", "9", "3", "0", "5", "6", "7", "D", "E", "0", "B", "2", "8", "F", "C", "2">>, <<"0", "x", "_", "3", "8", "B", "F", "4", "0", "4", "1", "D", "4", "3", "4", "2", "F", "2", "9", "3", "0", "5", "6", "7", "D", "E", "0", "B", "2", "8", "F", "C">> }

IdInputs == Concats(IdTokens, MaxPathTokens) \cup ExampleIds

\* the arguments of the add_game and has_app calls of the unit tests
ApiNames == { <<"A", "b">>, <<"a", "b">>, <<"A", "b", " ">> }

\* command, working directory, log file and image path of a call
ApiArg(cmd, working_dir, logfile, image) ==
    [cmd |-> cmd, working_dir |-> working_dir, logfile |-> logfile, image |-> image]

ApiArgs ==
    { ApiArg(<<"a", ".", "e", "x", "e">>, <<>>, <<>>, <<>>),
      ApiArg(<<"s", "t", "a", "r", "t", " ", "s", "t", "e", "a", "m", ":", "/", "/", "r", "/", "1">>, <<"C", ":", "\\", "G", "\\">>, <<"a", ".", "l", "o", "g">>, <<"P", ":", "\\", "S", "\\", "a", ".", "p", "n", "g">>),
      ApiArg(GuidUnknown \o <<"\\", "x", ".", "e", "x", "e">>, <<"C", ":", "\\", "G">>, <<"x", ".", "l", "o", "g">>, <<>>) }

(***************************************************************************)
(* State                                                                   *)
(***************************************************************************)
VARIABLES
    pc,             \* position in main, or the specification a unit call belongs to
    exc,            \* the exception that ended the run, "none" otherwise
    args,           \* args.dry_run, args.nv_add_autodetect
    apps_file,      \* the apps.json file on disk
    sunshine_apps,  \* the registry in memory
    gs_apps,        \* os.listdir(args.shortcut_dir)
    journal,        \* journalBS.main.xml and ApplicationData.json
    fs,             \* the box-art files on disk
    i,              \* index of the loop iteration to run next
    count,          \* count
    call,           \* the last add_game or has_app call with its arguments and result
    apps0,          \* history: the registry's apps when loaded
    added,          \* history: the discovered apps add_game was called for, in call order
    ret,            \* what the last known_path_to_absolute or get_win_path call returned or raised
    syscalls,       \* history: the number of SHGetKnownFolderPath calls made
    copies,         \* history: the destinations of the copy_image calls, in call order
    writes          \* history: the number of times apps.json was opened for writing

vars == <<pc, exc, args, apps_file, sunshine_apps, gs_apps, journal, fs, i, count,
          call, apps0, added, ret, syscalls, copies, writes>>

NoReturn == [ok |-> TRUE, val |-> <<>>, exc |-> "none"]

NoCall == [op |-> "none", name |-> <<>>, cmd |-> <<>>, working_dir |-> <<>>, result |-> FALSE]

Call(op, name, cmd, working_dir, result) ==
    [op |-> op, name |-> name, cmd |-> cmd, working_dir |-> working_dir, result |-> result]

Added(src, idx, name) == [src |-> src, idx |-> idx, name |-> name]

(***************************************************************************)
(* main                                                                    *)
(***************************************************************************)
Init ==
    /\ pc = "start"
    /\ exc = "none"
    /\ args \in [dry_run : BOOLEAN, nv_add_autodetect : BOOLEAN]
    /\ apps_file \in {[exists |-> FALSE, content |-> NoRegistry]}
                     \cup {[exists |-> TRUE, content |-> r] : r \in InitialRegistries}
    /\ sunshine_apps = NoRegistry
    /\ gs_apps \in Listings
    /\ journal \in Journals
    /\ fs = InitialFiles
    /\ i = 1
    /\ count = 0
    /\ call = NoCall
    /\ apps0 = <<>>
    /\ added = <<>>
    /\ ret = NoReturn
    /\ syscalls = 0
    /\ copies = <<>>
    /\ writes = 0

\* if os.path.isfile(args.apps): json.load
load_apps ==
    /\ pc = "start"
    /\ apps_file.exists
    /\ sunshine_apps' = apps_file.content
    /\ apps0' = apps_file.content.apps
    /\ pc' = "shortcuts"
    /\ i' = 1
    /\ UNCHANGED <<exc, args, apps_file, gs_apps, journal, fs, count, call, added, ret,
                   syscalls, copies, writes>>

\* else: raise FileNotFoundError
apps_file_not_found ==
    /\ pc = "start"
    /\ ~apps_file.exists
    /\ pc' = "raised"
    /\ exc' = "FileNotFoundError"
    /\ UNCHANGED <<args, apps_file, sunshine_apps, gs_apps, journal, fs, i, count, call,
                   apps0, added, ret, syscalls, copies, writes>>

in_shortcut_loop == pc = "shortcuts" /\ i <= Len(gs_apps)

\* an entry of the listing that is not a .lnk file
shortcut_not_lnk ==
    /\ in_shortcut_loop
    /\ ~is_lnk(gs_apps[i].fname)
    /\ i' = i + 1
    /\ UNCHANGED <<pc, exc, args, apps_file, sunshine_apps, gs_apps, journal, fs, count,
                   call, apps0, added, ret, syscalls, copies, writes>>

\* the shortcut loop's duplicate test
shortcut_has_app(gs_app) == has_app(sunshine_apps, shortcut_name(gs_app.fname))

\* if has_app(...): continue
shortcut_skip_existing ==
    /\ in_shortcut_loop
    /\ is_lnk(gs_apps[i].fname)
    /\ shortcut_has_app(gs_apps[i])
    /\ i' = i + 1
    /\ UNCHANGED <<pc, exc, args, apps_file, sunshine_apps, gs_apps, journal, fs, count,
                   call, apps0, added, ret, syscalls, copies, writes>>

\* pylnk3.parse raises on a file it cannot parse, after count += 1
shortcut_parse_error ==
    /\ in_shortcut_loop
    /\ is_lnk(gs_apps[i].fname)
    /\ ~shortcut_has_app(gs_apps[i])
    /\ ~gs_apps[i].valid
    /\ count' = count + 1
    /\ pc' = "raised"
    /\ exc' = "ParseError"
    /\ UNCHANGED <<args, apps_file, sunshine_apps, gs_apps, journal, fs, i, call, apps0, added,
                   ret, syscalls, copies, writes>>

shortcut_data(gs_app) ==
    LET name == shortcut_name(gs_app.fname)
    IN  add_game_data(name, shortcut_logfile(name), gs_app.path, shortcut_work_dir(gs_app),
                      shortcut_dst_image(name))

\* the copy_image calls so far, with the one this iteration makes
copies_after(dst_image) == IF args.dry_run THEN copies ELSE Append(copies, dst_image)

\* copy_image(...) whether or not the run is a dry run
shortcut_copy_always(name) == copy_image(fs, shortcut_src_image(name), shortcut_dst_image(name))

\* if not args.dry_run: copy_image(...)
shortcut_copy(name) ==
    IF args.dry_run THEN fs
    ELSE copy_image(fs, shortcut_src_image(name), shortcut_dst_image(name))

\* add_game raises out of known_path_to_absolute, after the image was copied
shortcut_resolve_error ==
    /\ in_shortcut_loop
    /\ is_lnk(gs_apps[i].fname)
    /\ ~shortcut_has_app(gs_apps[i])
    /\ gs_apps[i].valid
    /\ ~shortcut_data(gs_apps[i]).ok
    /\ count' = count + 1
    /\ fs' = shortcut_copy(shortcut_name(gs_apps[i].fname))
    /\ call' = Call("add_game", shortcut_name(gs_apps[i].fname), gs_apps[i].path,
                    shortcut_work_dir(gs_apps[i]), FALSE)
    /\ pc' = "raised"
    /\ exc' = shortcut_data(gs_apps[i]).exc
    /\ copies' = copies_after(shortcut_dst_image(shortcut_name(gs_apps[i].fname)))
    /\ UNCHANGED <<args, apps_file, sunshine_apps, gs_apps, journal, i, apps0, added, ret,
                   syscalls, writes>>

\* a new shortcut, with apps.json saved right after the add_game call
shortcut_add_saving ==
    /\ in_shortcut_loop
    /\ is_lnk(gs_apps[i].fname)
    /\ ~shortcut_has_app(gs_apps[i])
    /\ gs_apps[i].valid
    /\ shortcut_data(gs_apps[i]).ok
    /\ LET name == shortcut_name(gs_apps[i].fname)
       IN  /\ count' = count + 1
           /\ fs' = shortcut_copy(name)
           /\ sunshine_apps' = add_game(sunshine_apps, name, shortcut_logfile(name),
                                        gs_apps[i].path, shortcut_work_dir(gs_apps[i]),
                                        shortcut_dst_image(name))
           /\ call' = Call("add_game", name, gs_apps[i].path, shortcut_work_dir(gs_apps[i]), TRUE)
           /\ added' = Append(added, Added("shortcut", i, name))
           /\ copies' = copies_after(shortcut_dst_image(name))
    /\ apps_file' = IF args.dry_run THEN apps_file
                    ELSE [exists |-> TRUE, content |-> sunshine_apps']
    /\ writes' = IF args.dry_run THEN writes ELSE writes + 1
    /\ i' = i + 1
    /\ UNCHANGED <<pc, exc, args, gs_apps, journal, apps0, ret, syscalls>>

\* a new shortcut: count, copy the box art, add_game
shortcut_add ==
    /\ in_shortcut_loop
    /\ is_lnk(gs_apps[i].fname)
    /\ ~shortcut_has_app(gs_apps[i])
    /\ gs_apps[i].valid
    /\ shortcut_data(gs_apps[i]).ok
    /\ LET name == shortcut_name(gs_apps[i].fname)
       IN  /\ count' = count + 1
           /\ fs' = shortcut_copy(name)
           /\ sunshine_apps' = add_game(sunshine_apps, name, shortcut_logfile(name),
                                        gs_apps[i].path, shortcut_work_dir(gs_apps[i]),
                                        shortcut_dst_image(name))
           /\ call' = Call("add_game", name, gs_apps[i].path, shortcut_work_dir(gs_apps[i]), TRUE)
           /\ added' = Append(added, Added("shortcut", i, name))
           /\ copies' = copies_after(shortcut_dst_image(name))
    /\ i' = i + 1
    /\ UNCHANGED <<pc, exc, args, apps_file, gs_apps, journal, apps0, ret, syscalls, writes>>

shortcuts_done == pc = "shortcuts" /\ i > Len(gs_apps)

\* if args.nv_add_autodetect: parse the journal and load ApplicationData.json
autodetect_begin ==
    /\ shortcuts_done
    /\ args.nv_add_autodetect
    /\ journal.exists
    /\ pc' = "autodetect"
    /\ i' = 1
    /\ UNCHANGED <<exc, args, apps_file, sunshine_apps, gs_apps, journal, fs, count, call,
                   apps0, added, ret, syscalls, copies, writes>>

\* the journal or ApplicationData.json is missing
autodetect_files_missing ==
    /\ shortcuts_done
    /\ args.nv_add_autodetect
    /\ ~journal.exists
    /\ pc' = "raised"
    /\ exc' = "FileNotFoundError"
    /\ UNCHANGED <<args, apps_file, sunshine_apps, gs_apps, journal, fs, i, count, call,
                   apps0, added, ret, syscalls, copies, writes>>

autodetect_off ==
    /\ shortcuts_done
    /\ ~args.nv_add_autodetect
    /\ pc' = "write"
    /\ UNCHANGED <<exc, args, apps_file, sunshine_apps, gs_apps, journal, fs, i, count, call,
                   apps0, added, ret, syscalls, copies, writes>>

in_autodetect_loop == pc = "autodetect" /\ i <= Len(journal.applications)

application == journal.applications[i]

\* if name == "Steam": continue
autodetect_skip_steam ==
    /\ in_autodetect_loop
    /\ application.DisplayName = <<"S", "t", "e", "a", "m">>
    /\ i' = i + 1
    /\ UNCHANGED <<pc, exc, args, apps_file, sunshine_apps, gs_apps, journal, fs, count,
                   call, apps0, added, ret, syscalls, copies, writes>>

\* the autodetect loop's duplicate test
autodetect_has_app(app) == has_app(sunshine_apps, app.DisplayName)

autodetect_new ==
    /\ in_autodetect_loop
    /\ application.DisplayName # <<"S", "t", "e", "a", "m">>
    /\ ~autodetect_has_app(application)

\* if has_app(...): continue
autodetect_skip_existing ==
    /\ in_autodetect_loop
    /\ application.DisplayName # <<"S", "t", "e", "a", "m">>
    /\ autodetect_has_app(application)
    /\ i' = i + 1
    /\ UNCHANGED <<pc, exc, args, apps_file, sunshine_apps, gs_apps, journal, fs, count,
                   call, apps0, added, ret, syscalls, copies, writes>>

\* an application without a command that is counted all the same
autodetect_no_cmd_counted ==
    /\ autodetect_new
    /\ ~application.has_cmd
    /\ i' = i + 1
    /\ count' = count + 1
    /\ UNCHANGED <<pc, exc, args, apps_file, sunshine_apps, gs_apps, journal, fs,
                   call, apps0, added, ret, syscalls, copies, writes>>

\* if cmd is None: continue
autodetect_no_cmd ==
    /\ autodetect_new
    /\ ~application.has_cmd
    /\ i' = i + 1
    /\ UNCHANGED <<pc, exc, args, apps_file, sunshine_apps, gs_apps, journal, fs, count,
                   call, apps0, added, ret, syscalls, copies, writes>>

\* short_name not in gfe_apps["metadata"]: nothing is done for the application
autodetect_no_metadata ==
    /\ autodetect_new
    /\ application.has_cmd
    /\ application.ShortName \notin DOMAIN gfe_metadata
    /\ i' = i + 1
    /\ UNCHANGED <<pc, exc, args, apps_file, sunshine_apps, gs_apps, journal, fs, count,
                   call, apps0, added, ret, syscalls, copies, writes>>

autodetect_data(app) ==
    add_game_data(app.DisplayName, autodetect_logfile(app.ShortName), app.StreamingCommandLine,
                  app.InstallDirectory, autodetect_dst_image(app.ShortName))

autodetect_copy(short_name) ==
    IF args.dry_run THEN fs
    ELSE copy_image(fs, autodetect_src_image(short_name), autodetect_dst_image(short_name))

autodetect_known ==
    /\ autodetect_new
    /\ application.has_cmd
    /\ application.ShortName \in DOMAIN gfe_metadata

\* add_game raises out of known_path_to_absolute, after the image was copied
autodetect_resolve_error ==
    /\ autodetect_known
    /\ ~autodetect_data(application).ok
    /\ fs' = autodetect_copy(application.ShortName)
    /\ call' = Call("add_game", application.DisplayName, application.StreamingCommandLine,
                    application.InstallDirectory, FALSE)
    /\ pc' = "raised"
    /\ exc' = autodetect_data(application).exc
    /\ copies' = copies_after(autodetect_dst_image(application.ShortName))
    /\ UNCHANGED <<args, apps_file, sunshine_apps, gs_apps, journal, i, count, apps0, added, ret,
                   syscalls, writes>>

\* a new application: copy the box art, add_game, count
autodetect_add ==
    /\ autodetect_known
    /\ autodetect_data(application).ok
    /\ fs' = autodetect_copy(application.ShortName)
    /\ sunshine_apps' = add_game(sunshine_apps, application.DisplayName,
                                 autodetect_logfile(application.ShortName),
                                 application.StreamingCommandLine, application.InstallDirectory,
                                 autodetect_dst_image(application.ShortName))
    /\ call' = Call("add_game", application.DisplayName, application.StreamingCommandLine,
                    application.InstallDirectory, TRUE)
    /\ added' = Append(added, Added("autodetect", i, application.DisplayName))
    /\ copies' = copies_after(autodetect_dst_image(application.ShortName))
    /\ count' = count + 1
    /\ i' = i + 1
    /\ UNCHANGED <<pc, exc, args, apps_file, gs_apps, journal, apps0, ret, syscalls, writes>>

autodetect_done ==
    /\ pc = "autodetect"
    /\ i > Len(journal.applications)
    /\ pc' = "write"
    /\ UNCHANGED <<exc, args, apps_file, sunshine_apps, gs_apps, journal, fs, i, count, call,
                   apps0, added, ret, syscalls, copies, writes>>

\* if not args.dry_run: json.dump
write_apps ==
    /\ pc = "write"
    /\ ~args.dry_run
    /\ apps_file' = [exists |-> TRUE, content |-> sunshine_apps]
    /\ writes' = writes + 1
    /\ pc' = "done"
    /\ UNCHANGED <<exc, args, sunshine_apps, gs_apps, journal, fs, i, count, call, apps0, added,
                   ret, syscalls, copies>>

dry_run_done ==
    /\ pc = "write"
    /\ args.dry_run
    /\ pc' = "done"
    /\ UNCHANGED <<exc, args, apps_file, sunshine_apps, gs_apps, journal, fs, i, count, call,
                   apps0, added, ret, syscalls, copies, writes>>

Next ==
    \/ load_apps
    \/ apps_file_not_found
    \/ shortcut_not_lnk
    \/ shortcut_skip_existing
    \/ shortcut_parse_error
    \/ shortcut_resolve_error
    \/ shortcut_add
    \/ autodetect_begin
    \/ autodetect_files_missing
    \/ autodetect_off
    \/ autodetect_skip_steam
    \/ autodetect_skip_existing
    \/ autodetect_no_cmd
    \/ autodetect_no_metadata
    \/ autodetect_resolve_error
    \/ autodetect_add
    \/ autodetect_done
    \/ write_apps
    \/ dry_run_done

Spec == Init /\ [][Next]_vars

(***************************************************************************)
(* add_game and has_app called directly, as the unit tests call them       *)
(***************************************************************************)
InitApi ==
    /\ pc = "api"
    /\ exc = "none"
    /\ args = [dry_run |-> FALSE, nv_add_autodetect |-> FALSE]
    /\ sunshine_apps \in InitialRegistries
    /\ apps_file = [exists |-> TRUE, content |-> sunshine_apps]
    /\ gs_apps = <<>>
    /\ journal = [exists |-> FALSE, applications |-> <<>>]
    /\ fs = InitialFiles
    /\ i = 1
    /\ count = 0
    /\ call = NoCall
    /\ apps0 = sunshine_apps.apps
    /\ added = <<>>
    /\ ret = NoReturn
    /\ syscalls = 0
    /\ copies = <<>>
    /\ writes = 0

api_add_game ==
    /\ pc = "api"
    /\ Len(added) < MaxCalls
    /\ \E name \in ApiNames, a \in ApiArgs :
          /\ add_game_data(name, a.logfile, a.cmd, a.working_dir, a.image).ok
          /\ sunshine_apps' = add_game(sunshine_apps, name, a.logfile, a.cmd, a.working_dir,
                                       a.image)
          /\ call' = Call("add_game", name, a.cmd, a.working_dir, TRUE)
          /\ added' = Append(added, Added("api", Len(added) + 1, name))
    /\ UNCHANGED <<pc, exc, args, apps_file, gs_apps, journal, fs, i, count, apps0, ret, syscalls, copies,
                   writes>>

api_add_game_raises ==
    /\ pc = "api"
    /\ \E name \in ApiNames, a \in ApiArgs :
          /\ ~add_game_data(name, a.logfile, a.cmd, a.working_dir, a.image).ok
          /\ call' = Call("add_game", name, a.cmd, a.working_dir, FALSE)
    /\ UNCHANGED <<pc, exc, args, apps_file, sunshine_apps, gs_apps, journal, fs, i, count,
                   apps0, added, ret, syscalls, copies, writes>>

api_has_app ==
    /\ pc = "api"
    /\ \E name \in ApiNames :
          call' = Call("has_app", name, <<>>, <<>>, has_app(sunshine_apps, name))
    /\ UNCHANGED <<pc, exc, args, apps_file, sunshine_apps, gs_apps, journal, fs, i, count,
                   apps0, added, ret, syscalls, copies, writes>>

NextApi == api_add_game \/ api_add_game_raises \/ api_has_app

SpecApi == InitApi /\ [][NextApi]_vars

(***************************************************************************)
(* add_game applied once to a command and a working directory              *)
(***************************************************************************)
NormName == <<"N">>

NormLogfile == <<"n", ".", "l", "o", "g">>

NormImage == <<"P", ":", "\\", "S", "\\", "N", ".", "p", "n", "g">>

InitNorm ==
    /\ pc = "input"
    /\ exc = "none"
    /\ args = [dry_run |-> FALSE, nv_add_autodetect |-> FALSE]
    /\ sunshine_apps = Registry(<<EntryAb>>)
    /\ apps_file = [exists |-> TRUE, content |-> sunshine_apps]
    /\ gs_apps = <<>>
    /\ journal = [exists |-> FALSE, applications |-> <<>>]
    /\ fs = InitialFiles
    /\ i = 1
    /\ count = 0
    /\ call \in {Call("input", NormName, cmd, working_dir, FALSE) :
                    cmd \in CmdInputs, working_dir \in WdInputs}
    /\ apps0 = sunshine_apps.apps
    /\ added = <<>>
    /\ ret = NoReturn
    /\ syscalls = 0
    /\ copies = <<>>
    /\ writes = 0

norm_data == add_game_data(NormName, NormLogfile, call.cmd, call.working_dir, NormImage)

norm_add_game ==
    /\ pc = "input"
    /\ norm_data.ok
    /\ sunshine_apps' = add_game(sunshine_apps, NormName, NormLogfile, call.cmd,
                                 call.working_dir, NormImage)
    /\ call' = [call EXCEPT !.op = "add_game", !.result = TRUE]
    /\ added' = Append(added, Added("api", 1, NormName))
    /\ pc' = "output"
    /\ UNCHANGED <<exc, args, apps_file, gs_apps, journal, fs, i, count, apps0, ret, syscalls, copies,
                   writes>>

norm_add_game_raises ==
    /\ pc = "input"
    /\ ~norm_data.ok
    /\ call' = [call EXCEPT !.op = "add_game"]
    /\ pc' = "raised"
    /\ exc' = norm_data.exc
    /\ UNCHANGED <<args, apps_file, sunshine_apps, gs_apps, journal, fs, i, count, apps0, added,
                   ret, syscalls, copies, writes>>

\* a second add_game call on the working directory and the command the first one stored
fed_back_data ==
    LET e == sunshine_apps.apps[Len(sunshine_apps.apps)]
        cmd == IF "detached" \in DOMAIN e THEN e["detached"][1] ELSE e["cmd"]
    IN  add_game_data(NormName, NormLogfile, cmd, e["working-dir"], NormImage)

norm_feed_back ==
    /\ pc = "output"
    /\ fed_back_data.ok
    /\ sunshine_apps' = append_app(sunshine_apps, fed_back_data.val)
    /\ call' = [call EXCEPT !.op = "add_game_again"]
    /\ added' = Append(added, Added("api", 2, NormName))
    /\ pc' = "output2"
    /\ UNCHANGED <<exc, args, apps_file, gs_apps, journal, fs, i, count, apps0, ret, syscalls, copies,
                   writes>>

norm_feed_back_raises ==
    /\ pc = "output"
    /\ ~fed_back_data.ok
    /\ call' = [call EXCEPT !.op = "add_game_again", !.result = FALSE]
    /\ pc' = "raised"
    /\ exc' = fed_back_data.exc
    /\ UNCHANGED <<args, apps_file, sunshine_apps, gs_apps, journal, fs, i, count, apps0, added,
                   ret, syscalls, copies, writes>>

NextNorm == norm_add_game \/ norm_add_game_raises \/ norm_feed_back \/ norm_feed_back_raises

SpecNorm == InitNorm /\ [][NextNorm]_vars

(***************************************************************************)
(* known_path_to_absolute and get_win_path called directly, one call on    *)
(* one argument                                                            *)
(***************************************************************************)
PathCall(op, arg) == [op |-> op, arg |-> arg]

InitPath ==
    /\ pc = "input"
    /\ exc = "none"
    /\ args = [dry_run |-> FALSE, nv_add_autodetect |-> FALSE]
    /\ sunshine_apps = Registry(<<EntryAb>>)
    /\ apps_file = [exists |-> TRUE, content |-> sunshine_apps]
    /\ gs_apps = <<>>
    /\ journal = [exists |-> FALSE, applications |-> <<>>]
    /\ fs = InitialFiles
    /\ i = 1
    /\ count = 0
    /\ call \in {PathCall("known_path_to_absolute", path) : path \in PathInputs}
               \cup {PathCall("get_win_path", folder_id) : folder_id \in IdInputs}
    /\ apps0 = sunshine_apps.apps
    /\ added = <<>>
    /\ ret = NoReturn
    /\ syscalls = 0
    /\ copies = <<>>
    /\ writes = 0

\* len(path_result) != 1: the path is returned as it is
kpa_unmatched ==
    /\ pc = "input"
    /\ call.op = "known_path_to_absolute"
    /\ regex_findall(call.arg) = <<>>
    /\ ret' = known_path_to_absolute(call.arg)
    /\ pc' = "returned"
    /\ UNCHANGED <<exc, args, apps_file, sunshine_apps, gs_apps, journal, fs, i, count, call, apps0,
                   added, syscalls, copies, writes>>

\* the prefix matched and get_win_path returned the folder
kpa_resolved ==
    /\ pc = "input"
    /\ call.op = "known_path_to_absolute"
    /\ regex_findall(call.arg) # <<>>
    /\ known_path_to_absolute(call.arg).ok
    /\ ret' = known_path_to_absolute(call.arg)
    /\ syscalls' = syscalls + lookups(regex_findall(call.arg)[1])
    /\ pc' = "returned"
    /\ UNCHANGED <<exc, args, apps_file, sunshine_apps, gs_apps, journal, fs, i, count, call, apps0,
                   added, copies, writes>>

\* the prefix matched and get_win_path raised
kpa_raises ==
    /\ pc = "input"
    /\ call.op = "known_path_to_absolute"
    /\ regex_findall(call.arg) # <<>>
    /\ ~known_path_to_absolute(call.arg).ok
    /\ ret' = known_path_to_absolute(call.arg)
    /\ syscalls' = syscalls + lookups(regex_findall(call.arg)[1])
    /\ exc' = known_path_to_absolute(call.arg).exc
    /\ pc' = "raised"
    /\ UNCHANGED <<args, apps_file, sunshine_apps, gs_apps, journal, fs, i, count, call, apps0,
                   added, copies, writes>>

\* UUID(folder_id) raised: SHGetKnownFolderPath is not reached
gwp_invalid ==
    /\ pc = "input"
    /\ call.op = "get_win_path"
    /\ ~UUID(call.arg).ok
    /\ ret' = get_win_path(call.arg)
    /\ exc' = get_win_path(call.arg).exc
    /\ pc' = "raised"
    /\ UNCHANGED <<args, apps_file, sunshine_apps, gs_apps, journal, fs, i, count, call, apps0,
                   added, syscalls, copies, writes>>

\* SHGetKnownFolderPath returned a failure code
gwp_not_found ==
    /\ pc = "input"
    /\ call.op = "get_win_path"
    /\ UUID(call.arg).ok
    /\ ~get_win_path(call.arg).ok
    /\ ret' = get_win_path(call.arg)
    /\ syscalls' = syscalls + lookups(call.arg)
    /\ exc' = get_win_path(call.arg).exc
    /\ pc' = "raised"
    /\ UNCHANGED <<args, apps_file, sunshine_apps, gs_apps, journal, fs, i, count, call, apps0,
                   added, copies, writes>>

\* SHGetKnownFolderPath returned 0 and the path
gwp_found ==
    /\ pc = "input"
    /\ call.op = "get_win_path"
    /\ get_win_path(call.arg).ok
    /\ ret' = get_win_path(call.arg)
    /\ syscalls' = syscalls + lookups(call.arg)
    /\ pc' = "returned"
    /\ UNCHANGED <<exc, args, apps_file, sunshine_apps, gs_apps, journal, fs, i, count, call, apps0,
                   added, copies, writes>>

NextPath ==
    kpa_unmatched \/ kpa_resolved \/ kpa_raises \/ gwp_invalid \/ gwp_not_found \/ gwp_found

SpecPath == InitPath /\ [][NextPath]_vars

(***************************************************************************)
(* copy_image called directly, one call on one file system                 *)
(***************************************************************************)
CopyCall(src_image, dst_image, before) ==
    [op |-> "copy_image", src_image |-> src_image, dst_image |-> dst_image, before |-> before]

InitCopy ==
    /\ pc = "input"
    /\ exc = "none"
    /\ args = [dry_run |-> FALSE, nv_add_autodetect |-> FALSE]
    /\ sunshine_apps = Registry(<<EntryAb>>)
    /\ apps_file = [exists |-> TRUE, content |-> sunshine_apps]
    /\ gs_apps = <<>>
    /\ journal = [exists |-> FALSE, applications |-> <<>>]
    /\ fs \in CopyFiles
    /\ i = 1
    /\ count = 0
    /\ call \in {CopyCall(src_image, dst_image, fs) : src_image \in CopyPaths, dst_image \in CopyPaths}
    /\ apps0 = sunshine_apps.apps
    /\ added = <<>>
    /\ ret = NoReturn
    /\ syscalls = 0
    /\ copies = <<>>
    /\ writes = 0

\* the if branch: shutil.copy2
copy_image_copies ==
    /\ pc = "input"
    /\ isfile(fs, call.src_image) /\ ~isfile(fs, call.dst_image)
    /\ fs' = copy_image(fs, call.src_image, call.dst_image)
    /\ copies' = Append(copies, call.dst_image)
    /\ pc' = "returned"
    /\ UNCHANGED <<exc, args, apps_file, sunshine_apps, gs_apps, journal, i, count, call, apps0,
                   added, ret, syscalls, writes>>

\* the else branch: only a message is printed
copy_image_skips ==
    /\ pc = "input"
    /\ ~(isfile(fs, call.src_image) /\ ~isfile(fs, call.dst_image))
    /\ fs' = copy_image(fs, call.src_image, call.dst_image)
    /\ copies' = Append(copies, call.dst_image)
    /\ pc' = "returned"
    /\ UNCHANGED <<exc, args, apps_file, sunshine_apps, gs_apps, journal, i, count, call, apps0,
                   added, ret, syscalls, writes>>

NextCopy == copy_image_copies \/ copy_image_skips

SpecCopy == InitCopy /\ [][NextCopy]_vars

(***************************************************************************)
(* Properties                                                              *)
(***************************************************************************)
apps == sunshine_apps.apps

unique_names(a) == \A j, k \in 1..Len(a) : j # k => a[j]["name"] # a[k]["name"]

\* C1: starting from a registry whose app names are pairwise distinct, the app
\* names in the registry stay pairwise distinct throughout a migration run,
\* whatever names the shortcuts and the autodetected applications repeat.
C1_UniqueNames == unique_names(apps0) => unique_names(apps)

\* a completed run that added a shortcut and then met an autodetected
\* application of the same name
C1_Witness ==
    /\ pc = "done"
    /\ apps0 # <<>>
    /\ unique_names(apps0)
    /\ \E a \in 1..Len(added), k \in 1..Len(journal.applications) :
          /\ added[a].src = "shortcut"
          /\ journal.applications[k].DisplayName = added[a].name
    /\ Len(apps) = Len(apps0) + 1

\* C2: whenever add_game returned normally, has_app on the same registry and
\* the same name is True.
C2_AddThenHas == (call.op = "add_game" /\ call.result) => has_app(sunshine_apps, call.name)

\* add_game returned for a name with trailing whitespace, beside another entry
C2_Witness ==
    /\ pc = "api"
    /\ call.op = "add_game"
    /\ call.result
    /\ call.name = <<"A", "b", " ">>
    /\ Len(apps) >= 2

\* C3: has_app returns True exactly when some entry's name equals the given
\* name character by character, and a has_app call leaves the registry as it was.
C3_HasAppExact ==
    /\ [](call.op = "has_app" =>
            (call.result <=> \E k \in 1..Len(apps) : apps[k]["name"] = call.name))
    /\ [][call'.op = "has_app" => sunshine_apps' = sunshine_apps]_vars

\* has_app answered False for "Ab" although "ab" and "Ab " are in the registry
C3_Witness ==
    /\ call.op = "has_app"
    /\ call.name = <<"A", "b">>
    /\ ~call.result
    /\ \E k \in 1..Len(apps) : apps[k]["name"] = <<"a", "b">>
    /\ \E k \in 1..Len(apps) : apps[k]["name"] = <<"A", "b", " ">>

\* C4: every add_game call that returns appends exactly one entry, carrying the
\* call's name, behind the unchanged previous entries and changes no other field
\* of the registry; so the apps are the loaded ones followed by one entry per call.
C4_PureAppend ==
    /\ [](/\ Len(apps) = Len(apps0) + Len(added)
          /\ SubSeq(apps, 1, Len(apps0)) = apps0
          /\ \A k \in 1..Len(added) : apps[Len(apps0) + k]["name"] = added[k].name)
    /\ [][(call'.op = "add_game" /\ call'.result) =>
            /\ Len(apps') = Len(apps) + 1
            /\ SubSeq(apps', 1, Len(apps)) = apps
            /\ apps'[Len(apps')]["name"] = call'.name
            /\ [sunshine_apps' EXCEPT !.apps = apps] = sunshine_apps]_vars

\* two calls with a name the registry already held: three entries of that name
C4_Witness ==
    /\ pc = "api"
    /\ Len(added) = 2
    /\ added[1].name = added[2].name
    /\ Cardinality({k \in 1..Len(apps) : apps[k]["name"] = added[1].name}) >= 3

\* discovery order: every shortcut before every autodetected application, and
\* within one source by position
discovered_before(a, b) ==
    \/ a.src = "shortcut" /\ b.src = "autodetect"
    \/ a.src = b.src /\ a.idx < b.idx

\* C5: the entries added in a run follow all entries loaded before the run and
\* stand in the order in which their apps were discovered.
C5_DiscoveryOrder ==
    /\ Len(apps) = Len(apps0) + Len(added)
    /\ SubSeq(apps, 1, Len(apps0)) = apps0
    /\ \A k \in 1..Len(added) : apps[Len(apps0) + k]["name"] = added[k].name
    /\ \A j, k \in 1..Len(added) : j < k => discovered_before(added[j], added[k])

\* a completed run that added a shortcut and an autodetected application to a
\* registry that was not empty
C5_Witness ==
    /\ pc = "done"
    /\ apps0 # <<>>
    /\ Len(added) >= 2
    /\ added[1].src = "shortcut"
    /\ added[Len(added)].src = "autodetect"
    /\ added[1].name # added[Len(added)].name

\* add_game of the single-call specification returned
norm_done == pc = "output"

\* the entry that call appended
out == apps[Len(apps)]

\* the command after prefix resolution and quote/separator stripping
in_cmd == clean_cmd(known_path_to_absolute(call.cmd).val)

has_cmd(e) == "cmd" \in DOMAIN e

has_detached(e) == "detached" \in DOMAIN e

\* the command an entry carries, in whichever field
command(e) == IF has_detached(e) THEN e["detached"][1] ELSE e["cmd"]

\* begins, case-insensitively, with the token start followed by whitespace
start_token(c) == StartsWith(Lower(c), <<"s", "t", "a", "r", "t">>) /\ Len(c) >= 6 /\ c[6] \in Whitespace

\* what the URI and plain-path rules make of a command
after_start(c, working_dir) ==
    IF Contains(c, <<":", "/", "/">>)
    THEN (IF Contains(c, <<"s", "t", "e", "a", "m", ":", "/", "/">>) THEN <<"s", "t", "e", "a", "m", " ">> \o c ELSE c)
    ELSE IF StartsWith(c, working_dir) THEN c ELSE os_path_join(working_dir, c)

\* letters, digits and the punctuation of scheme and file names
SchemeChars ==
    {UpperChars[k] : k \in 1..Len(UpperChars)} \cup {LowerChars[k] : k \in 1..Len(LowerChars)}
    \cup {"0", "1", "2", "3", "4", "5", "6", "7", "8", "9", "+", "-", "."}

\* C6: a command is handled by the start rule (prefix removed, entry detached)
\* if and only if it begins with the token start followed by whitespace; a
\* command that begins with the letters s-t-a-r-t followed by a letter, a digit
\* or a dot keeps its text and is detached only when it is a URI.
C6_StartNeedsWhitespace ==
    norm_done =>
        /\ start_token(in_cmd) =>
              /\ has_detached(out)
              /\ command(out) = after_start(Strip(DropFirst(in_cmd, 5)), out["working-dir"])
        /\ (StartsWith(Lower(in_cmd), <<"s", "t", "a", "r", "t">>) /\ Len(in_cmd) >= 6 /\ in_cmd[6] \in SchemeChars) =>
              /\ command(out) = after_start(in_cmd, out["working-dir"])
              /\ has_detached(out) <=> Contains(in_cmd, <<":", "/", "/">>)

\* the scheme of a URI: what stands before its first "://"
uri_scheme(c) == SubSeq(c, 1, Find(c, <<":", "/", "/">>) - 1)

\* a URI with a scheme name in front of "://"
is_plain_uri(c) ==
    /\ Contains(c, <<":", "/", "/">>)
    /\ uri_scheme(c) # <<>>
    /\ \A k \in 1..Len(uri_scheme(c)) : uri_scheme(c)[k] \in SchemeChars

\* C7: every command containing "://" is emitted detached; "steam " is put in
\* front of a URI if and only if its scheme is steam, a URI with any other
\* scheme keeps its text.
C7_SteamSchemeOnly ==
    norm_done =>
        /\ Contains(start_rule(in_cmd), <<":", "/", "/">>) => (has_detached(out) /\ ~has_cmd(out))
        /\ is_plain_uri(start_rule(in_cmd)) =>
              out["detached"] =
                  << IF uri_scheme(start_rule(in_cmd)) = <<"s", "t", "e", "a", "m">>
                     THEN <<"s", "t", "e", "a", "m", " ">> \o start_rule(in_cmd)
                     ELSE start_rule(in_cmd) >>

\* a steam URI: no whitespace and no quote in it
steam_uri(u) ==
    /\ StartsWith(u, <<"s", "t", "e", "a", "m", ":", "/", "/">>)
    /\ \A k \in 1..Len(u) : u[k] \notin Whitespace \cup {"\""}

\* the raw commands made of start, whitespace and a steam URI, by the position
\* of the last whitespace character
start_steam_splits(raw) ==
    {n \in 6..Len(raw) :
        /\ SubSeq(raw, 1, 5) = <<"s", "t", "a", "r", "t">>
        /\ \A k \in 6..n : raw[k] \in Whitespace
        /\ steam_uri(DropFirst(raw, n))}

ExampleStartSteam == <<"s", "t", "a", "r", "t", " ", "s", "t", "e", "a", "m", ":", "/", "/", "r", "u", "n", "g", "a", "m", "e", "i", "d", "/", "1", "2", "3", "4", "5">>

\* C8: for a raw command "start <steam URI>" the entry is detached and its one
\* detached command is "steam " followed by the URI.
C8_StartThenSteamUri ==
    norm_done =>
        \A n \in start_steam_splits(call.cmd) :
            /\ has_detached(out)
            /\ ~has_cmd(out)
            /\ out["detached"] = << <<"s", "t", "e", "a", "m", " ">> \o DropFirst(call.cmd, n) >>

C8_Witness ==
    /\ norm_done
    /\ call.cmd = ExampleStartSteam
    /\ out["detached"] = << <<"s", "t", "e", "a", "m", " ", "s", "t", "e", "a", "m", ":", "/", "/", "r", "u", "n", "g", "a", "m", "e", "i", "d", "/", "1", "2", "3", "4", "5">> >>

\* C9 as claimed: the working-directory join applies only to commands that
\* matched neither the start rule nor the URI rule; such a command is emitted
\* unchanged when it starts with the working directory and joined otherwise,
\* as a direct command; a start command with a command behind the token is
\* emitted detached, as that command without a join (stated for a working
\* directory that is stored as given).
C9_JoinOnlyPlain ==
    norm_done =>
        /\ (~is_start(in_cmd) /\ ~is_uri(in_cmd)) =>
              /\ has_cmd(out)
              /\ ~has_detached(out)
              /\ out["cmd"] = IF StartsWith(in_cmd, out["working-dir"]) THEN in_cmd
                              ELSE os_path_join(out["working-dir"], in_cmd)
        /\ (/\ start_token(in_cmd) /\ ~is_uri(in_cmd) /\ Strip(DropFirst(in_cmd, 5)) # <<>>
            /\ call.working_dir = out["working-dir"]) =>
              /\ has_detached(out)
              /\ command(out) = Strip(DropFirst(in_cmd, 5))

\* C9 amended: the working-directory join applies to every command that, once
\* the start prefix is removed from a command that begins with start, is not a
\* URI: it is emitted unchanged when it starts with the working directory and as
\* os.path.join(working directory, command) otherwise; the entry is a direct
\* command when the command did not begin with start and detached when it did.
C9_PlainPathRule ==
    (norm_done /\ ~Contains(start_rule(in_cmd), <<":", "/", "/">>)) =>
        /\ command(out) =
              IF StartsWith(start_rule(in_cmd), out["working-dir"]) THEN start_rule(in_cmd)
              ELSE os_path_join(out["working-dir"], start_rule(in_cmd))
        /\ has_cmd(out) <=> ~StartsWith(Lower(in_cmd), <<"s", "t", "a", "r", "t">>)
        /\ has_detached(out) <=> StartsWith(Lower(in_cmd), <<"s", "t", "a", "r", "t">>)

\* the spec's example: the command already starts with the working directory
C9_Witness ==
    /\ norm_done
    /\ call.cmd = <<"C", ":", "\\", "G", "a", "m", "e", "s", "\\", "F", "o", "o", "\\", "F", "o", "o", ".", "e", "x", "e">>
    /\ call.working_dir = <<"C", ":", "\\", "G", "a", "m", "e", "s", "\\", "F", "o", "o">>
    /\ has_cmd(out)
    /\ out["cmd"] = <<"C", ":", "\\", "G", "a", "m", "e", "s", "\\", "F", "o", "o", "\\", "F", "o", "o", ".", "e", "x", "e">>

\* C10: the entry add_game appended has either a 'cmd' field holding a command
\* string or a 'detached' field holding a list of exactly one command string,
\* never both and never neither.
C10_OneCommandShape ==
    norm_done =>
        /\ has_cmd(out) # has_detached(out)
        /\ has_detached(out) => Len(out["detached"]) = 1

\* a detached entry and its one command
C10_Witness ==
    /\ norm_done
    /\ has_detached(out)
    /\ ~has_cmd(out)
    /\ out["detached"] = << <<"s", "t", "e", "a", "m", " ", "s", "t", "e", "a", "m", ":", "/", "/", "r">> >>

\* wrapped in a pair of quote characters
is_quoted(s) == Len(s) >= 2 /\ s[1] = "\"" /\ s[Len(s)] = "\""

\* C11: the 'working-dir' of the appended entry does not end with a path
\* separator, for a raw working directory without quotes and for one wrapped
\* in a pair of quotes.
C11_NoTrailingSeparator ==
    (norm_done /\ (is_quoted(call.working_dir) \/ ~Contains(call.working_dir, <<"\"">>))) =>
        ~EndsWith(out["working-dir"], <<os_sep>>)

\* C12: neither the 'working-dir' nor the command of the appended entry
\* contains a double-quote character, wherever the quotes stood in the raw
\* command and the raw working directory.
C12_NoQuotes ==
    norm_done =>
        /\ ~Contains(out["working-dir"], <<"\"">>)
        /\ ~Contains(command(out), <<"\"">>)

\* quotes inside the command and inside the working directory, not around them
C12_Witness ==
    /\ norm_done
    /\ call.cmd = <<"a", "\"", "b", ".", "e", "x", "e">>
    /\ call.working_dir = <<"C", ":", "\\", "G", "a", "\"", "m", "e", "s">>
    /\ has_cmd(out)
    /\ out["working-dir"] = <<"C", ":", "\\", "G", "a", "m", "e", "s">>
    /\ out["cmd"] = <<"C", ":", "\\", "G", "a", "m", "e", "s", "\\", "a", "b", ".", "e", "x", "e">>

norm_done_twice == pc = "output2"

\* the entry the first add_game call appended, once the second has appended its own
first_out == apps[Len(apps) - 1]

\* the entry the second add_game call appended, from the output of the first
second_out == apps[Len(apps)]

\* no symbolic prefix to resolve, no quote, no separator left to trim
already_normal(cmd, working_dir) ==
    /\ regex_findall(cmd) = <<>>
    /\ regex_findall(working_dir) = <<>>
    /\ ~Contains(cmd, <<"\"">>)
    /\ ~Contains(working_dir, <<"\"">>)
    /\ ~EndsWith(working_dir, <<os_sep>>)
    /\ ~StartsWith(cmd, <<os_sep>>)

same_normal_form(e1, e2) ==
    /\ e1["working-dir"] = e2["working-dir"]
    /\ command(e1) = command(e2)
    /\ has_detached(e1) = has_detached(e2)

is_drive_absolute(working_dir) ==
    \/ working_dir = <<>>
    \/ /\ Len(working_dir) >= 3
       /\ \E k \in 1..Len(LowerChars) : LowerChars[k] = LowerChar(working_dir[1])
       /\ working_dir[2] = ":"
       /\ working_dir[3] = os_sep

kpa_done == pc \in {"returned", "raised"} /\ call.op = "known_path_to_absolute"

\* the path starts with :: and a braced 8-4-4-4-12 hex identifier
has_prefix(path) == regex_findall(path) # <<>>

\* what follows the 40 characters of the prefix
remainder(path) == DropFirst(path, RegexLen)

\* C14: a path with the prefix at position zero, whose identifier the resolver
\* resolves, comes back as the resolver's output followed by the remainder of
\* the path exactly as given; a path with no such prefix at position zero comes
\* back unmodified and the resolver is not called.
C14_OnlyLeadingPrefix ==
    kpa_done =>
        /\ (has_prefix(call.arg) /\ ret.ok) =>
              ret.val = get_win_path(regex_findall(call.arg)[1]).val \o remainder(call.arg)
        /\ ~has_prefix(call.arg) => (ret = Ok(call.arg) /\ syscalls = 0)

\* a get_win_path call that has returned or raised
gwp_done == pc \in {"returned", "raised"} /\ call.op = "get_win_path"

\* the identifier without the urn:, uuid:, brace and hyphen decoration uuid.UUID removes
bare_id(folder_id) ==
    Replace(StripBraces(Replace(Replace(folder_id, <<"u", "r", "n", ":">>, <<>>), <<"u", "u", "i", "d", ":">>, <<>>)), <<"-">>, <<>>)

\* 32 hex digits once the decoration is removed
well_formed(folder_id) ==
    /\ Len(bare_id(folder_id)) = HexLen
    /\ \A k \in 1..HexLen : bare_id(folder_id)[k] \in HexChars

\* C15: a malformed identifier raises ValueError and no system lookup is made;
\* a well-formed identifier the lookup does not know raises NotADirectoryError;
\* a path is returned only when the lookup was made and knows the folder.
C15_GetWinPathOutcomes ==
    gwp_done =>
        /\ ~well_formed(call.arg) => (ret = Raise("ValueError") /\ syscalls = 0)
        /\ (well_formed(call.arg) /\ Lower(bare_id(call.arg)) \notin DOMAIN KnownFolders) =>
              (ret = Raise("NotADirectoryError") /\ syscalls = 1)
        /\ ret.ok =>
              /\ syscalls = 1
              /\ well_formed(call.arg)
              /\ ret.val = KnownFolders[Lower(bare_id(call.arg))]

\* an add_game call of the run has raised out of the resolver
add_game_raised == call.op = "add_game" /\ ~call.result

\* C16: a folder-resolution failure ends the processing of one app only: after
\* an add_game call has raised, the run is still in one of its loops, at the
\* write or done, never stopped by the exception.
C16_FailureSkipsOneApp ==
    add_game_raised => pc \in {"shortcuts", "autodetect", "write", "done"}

\* every .lnk shortcut of the listing is in the registry under its name
all_shortcuts_in_registry ==
    \A k \in 1..Len(gs_apps) :
        is_lnk(gs_apps[k].fname) => has_app(sunshine_apps, shortcut_name(gs_apps[k].fname))

\* with autodetection on, every application of the journal that has a command
\* and metadata, Steam left out, is in the registry under its display name
all_applications_in_registry ==
    args.nv_add_autodetect =>
        \A k \in 1..Len(journal.applications) :
            LET a == journal.applications[k]
            IN  (a.DisplayName # <<"S", "t", "e", "a", "m">> /\ a.has_cmd /\ a.ShortName \in DOMAIN gfe_metadata) =>
                    has_app(sunshine_apps, a.DisplayName)

\* C17: in a dry run no step writes apps.json, changes a file or invokes
\* copy_image, and the in-memory registry is extended all the same: at the end
\* of the run it holds every shortcut of the listing and every eligible
\* autodetected application.
C17_DryRun ==
    /\ []((args.dry_run /\ pc = "done") =>
              (all_shortcuts_in_registry /\ all_applications_in_registry))
    /\ []((args.dry_run /\ pc \notin {"start", "raised"}) => apps_file.content.apps = apps0)
    /\ [][args.dry_run => (apps_file' = apps_file /\ fs' = fs /\ copies' = copies)]_vars

\* a dry run that added the shortcut Ab, whose box art exists and has no copy yet
C17_Witness ==
    /\ args.dry_run
    /\ pc = "done"
    /\ \E k \in 1..Len(added) : added[k].name = <<"A", "b">>
    /\ Len(apps) > Len(apps0)
    /\ apps_file.content.apps = apps0
    /\ isfile(fs, shortcut_src_image(<<"A", "b">>))
    /\ ~isfile(fs, shortcut_dst_image(<<"A", "b">>))
    /\ copies = <<>>

copy_done == pc = "returned" /\ call.op = "copy_image"

\* the paths other than the destination are as they were before the call
others_untouched ==
    /\ DOMAIN fs \ {call.dst_image} = DOMAIN call.before \ {call.dst_image}
    /\ \A p \in DOMAIN fs \ {call.dst_image} : fs[p] = call.before[p]

\* C18: copy_image copies if and only if the source exists and the destination
\* does not: after such a call the destination exists with the content of the
\* source; after any other call the file system is as before, an existing
\* destination keeps its content and no destination is created.
C18_CopyIfAbsent ==
    copy_done =>
        /\ others_untouched
        /\ IF call.src_image \in DOMAIN call.before /\ call.dst_image \notin DOMAIN call.before
           THEN call.dst_image \in DOMAIN fs /\ fs[call.dst_image] = call.before[call.src_image]
           ELSE fs = call.before

\* a call with an existing source and an absent destination, which now holds the copy
C18_Witness ==
    /\ copy_done
    /\ call.src_image \in DOMAIN call.before
    /\ call.dst_image \notin DOMAIN call.before
    /\ call.dst_image \in DOMAIN fs
    /\ fs[call.dst_image] = call.before[call.src_image]
    /\ fs[call.src_image] = call.before[call.src_image]

\* the .lnk shortcuts of the listing and, with autodetection on, the
\* applications of the journal
discovered ==
    Cardinality({k \in 1..Len(gs_apps) : is_lnk(gs_apps[k].fname)})
    + (IF args.nv_add_autodetect THEN Len(journal.applications) ELSE 0)

\* the image path main computes for the k-th app it added
computed_image(k) ==
    IF added[k].src = "shortcut" THEN shortcut_dst_image(added[k].name)
    ELSE autodetect_dst_image(journal.applications[added[k].idx].ShortName)

\* the k-th copy_image call went to the computed image path of the k-th added
\* app, which is the 'image-path' of its entry
copy_matches_entry(k) ==
    /\ copies[k] = computed_image(k)
    /\ copies[k] = apps[Len(apps0) + k]["image-path"]

\* C19 as stated, for the runs that are not dry runs: when the run is done,
\* copy_image was invoked once for each discovered app, with the image path
\* stored in the app's entry as the destination.
C19_CopyPerDiscovered ==
    (pc = "done" /\ ~args.dry_run) =>
        /\ Len(copies) = discovered
        /\ Len(copies) = Len(added)
        /\ \A k \in 1..Len(added) : copy_matches_entry(k)

\* C19: copy_image is invoked once for each app main calls add_game for (a
\* .lnk shortcut or an eligible autodetected application whose name is not in
\* the registry), in that order, unless the run is a dry run, which invokes it
\* never; the destination is the app's computed image path, and it is the
\* 'image-path' of the entry add_game appends.  If add_game raises, the copy
\* was made and no entry follows.
C19_CopyPerAdded ==
    /\ args.dry_run => copies = <<>>
    /\ (~args.dry_run /\ pc # "start") =>
          /\ Len(copies) = Len(added) + (IF add_game_raised THEN 1 ELSE 0)
          /\ Len(added) = Len(apps) - Len(apps0)
          /\ \A k \in 1..Len(added) : copy_matches_entry(k)

\* a run that added a shortcut and an autodetected application and skipped
\* another discovered app
C19_Witness ==
    /\ pc = "done"
    /\ ~args.dry_run
    /\ Len(added) = 2
    /\ added[1].src = "shortcut"
    /\ added[2].src = "autodetect"
    /\ discovered > 2
    /\ copies = <<shortcut_dst_image(added[1].name), apps[Len(apps)]["image-path"]>>

\* between two iterations of main's loops, at the write and when the run is done
between_iterations == pc \in {"shortcuts", "autodetect", "write", "done"}

\* C20: between two loop iterations of main, and when the count is reported,
\* count equals the length of the registry's apps list minus its length when
\* loaded.
C20_CountIsAdded ==
    between_iterations => count = Len(apps) - Len(apps0)

\* a run that met the Steam application, an application without a command and
\* one new app
C20_Witness ==
    /\ pc = "done"
    /\ count = 1
    /\ Len(apps) = Len(apps0) + 1
    /\ discovered >= 3
    /\ args.nv_add_autodetect
    /\ \E k \in 1..Len(journal.applications) : ~journal.applications[k].has_cmd
    /\ \E k \in 1..Len(journal.applications) : journal.applications[k].DisplayName = <<"S", "t", "e", "a", "m">>

\* the step opens apps.json for writing or changes what the file holds
touches_apps_file == apps_file' # apps_file \/ writes' # writes

\* both loops are over: every shortcut and every eligible application is in the registry
all_processed == all_shortcuts_in_registry /\ all_applications_in_registry

\* C21: apps.json is written at most once per run, and only by the step that
\* follows both loops: a run that stopped on an exception, whatever it had
\* added in memory, has not written and the file is as it was loaded (absent
\* if it was absent); the one write of a run without dry_run stores the final
\* in-memory registry.
C21_WriteOnceAtEnd ==
    /\ [](writes <= 1)
    /\ [](pc = "raised" =>
            /\ writes = 0
            /\ apps_file.exists => apps_file.content.apps = apps0
            /\ ~apps_file.exists => exc = "FileNotFoundError")
    /\ []((pc = "done" /\ ~args.dry_run) =>
            (writes = 1 /\ apps_file = [exists |-> TRUE, content |-> sunshine_apps]))
    /\ [][touches_apps_file =>
            /\ pc = "write" /\ pc' = "done"
            /\ ~args.dry_run
            /\ all_processed
            /\ writes' = writes + 1
            /\ apps_file' = [exists |-> TRUE, content |-> sunshine_apps]
            /\ sunshine_apps' = sunshine_apps]_vars

\* a run that added an app in memory and then stopped on an exception, the file untouched
C21_Witness ==
    /\ pc = "raised"
    /\ ~args.dry_run
    /\ Len(added) > 0
    /\ Len(apps) > Len(apps0)
    /\ writes = 0
    /\ apps_file.exists
    /\ apps_file.content.apps = apps0
====
